---- MODULE Spec2Model ----
(***************************************************************************)
(* Model of src/main.py: the FANG+ base-price estimator.                   *)
(*                                                                         *)
(* One run of main() is a sequential process: reference fetch, market      *)
(* fetch, share estimation, projection, formatting, print, delivery, with  *)
(* a single catch-all handler.  The external feeds, the environment and    *)
(* the HTTP endpoint are inputs: the weight table and the credentials are  *)
(* fixed in Init, the response of a feed is chosen when it is fetched and  *)
(* the outcome of an HTTP POST when the POST is made.                      *)
(*                                                                         *)
(* Floating point numbers are modelled as exact rationals extended with    *)
(* inf and nan.  Rounding error of binary floating point is not modelled;  *)
(* the difference between Python float division (raises on a zero          *)
(* divisor) and numpy.float64 division (IEEE: inf or nan) is.              *)
(***************************************************************************)
EXTENDS Integers, Sequences, FiniteSets, TLC

(***************************************************************************)
(* Numbers                                                                 *)
(***************************************************************************)
Abs(i) == IF i < 0 THEN -i ELSE i

RECURSIVE Gcd(_, _)
Gcd(a, b) == IF b = 0 THEN a ELSE Gcd(b, a % b)

\* a finite value n/d in lowest terms with d > 0
Rat(n, d) ==
    LET g == Gcd(Abs(n), Abs(d))
        s == IF d < 0 THEN -1 ELSE 1
    IN  [k |-> "fin", n |-> s * (n \div g), d |-> s * (d \div g)]

Num(i) == Rat(i, 1)

Inf(s) == [k |-> "inf", n |-> s, d |-> 1]

NaN == [k |-> "nan", n |-> 0, d |-> 1]

IsNaN(x) == x.k = "nan"

IsInf(x) == x.k = "inf"

IsFin(x) == x.k = "fin"

IsZero(x) == x.k = "fin" /\ x.n = 0

\* sign of a value other than nan; a zero counts as +0
Sgn(x) == IF x.n < 0 THEN -1 ELSE 1

\* x * y on floats
Mul(x, y) ==
    IF IsNaN(x) \/ IsNaN(y) THEN NaN
    ELSE IF IsInf(x) \/ IsInf(y)
         THEN IF IsZero(x) \/ IsZero(y) THEN NaN ELSE Inf(Sgn(x) * Sgn(y))
         ELSE Rat(x.n * y.n, x.d * y.d)

\* x + y on floats
Add(x, y) ==
    IF IsNaN(x) \/ IsNaN(y) THEN NaN
    ELSE IF IsInf(x) /\ IsInf(y) THEN (IF x.n = y.n THEN x ELSE NaN)
    ELSE IF IsInf(x) THEN x
    ELSE IF IsInf(y) THEN y
    ELSE Rat(x.n * y.d + y.n * x.d, x.d * y.d)

Neg(x) == IF IsNaN(x) THEN NaN ELSE [x EXCEPT !.n = -x.n]

\* x - y on floats
Sub(x, y) == Add(x, Neg(y))

\* x / y where an operand is a numpy.float64: IEEE division, a zero divisor
\* gives inf or nan (with a RuntimeWarning), never an exception
NpDiv(x, y) ==
    IF IsNaN(x) \/ IsNaN(y) THEN NaN
    ELSE IF IsZero(y) THEN (IF IsZero(x) THEN NaN ELSE Inf(Sgn(x)))
    ELSE IF IsInf(y) THEN (IF IsInf(x) THEN NaN ELSE Num(0))
    ELSE IF IsInf(x) THEN Inf(Sgn(x) * Sgn(y))
    ELSE Rat(x.n * y.d, x.d * y.n)

\* x / y between two Python floats raises ZeroDivisionError when y == 0
PyDivRaises(x, y) == IsZero(y)

\* x / y between two Python floats when it does not raise
PyDiv(x, y) == NpDiv(x, y)

(***************************************************************************)
(* Bounds of the model                                                     *)
(***************************************************************************)
\* most rows (trading days) the market feed returns for the 7 day window
MaxRows == 2

\* most data rows of the reference CSV
MaxCsvRows == 2

(***************************************************************************)
(* Weight tables.  A table is the dict in insertion order: a sequence of   *)
(* ticker/weight items.                                                    *)
(***************************************************************************)
Item(t, thousandths) == [ticker |-> t, weight |-> Rat(thousandths, 1000)]

\* WEIGHTS as the program defines it
ProgramWeights ==
    << Item("CRWD", 111), Item("NVDA", 110), Item("AAPL", 105),
       Item("GOOGL", 104), Item("AVGO", 100), Item("MSFT", 95),
       Item("NOW", 91), Item("AMZN", 89), Item("NFLX", 82),
       Item("META", 79) >>

\* tables substituted for WEIGHTS: the worked example of the specification,
\* and tables with the same weight for A whose sum is below 1.0
ExampleWeights == << Item("A", 500), Item("B", 500) >>

PartialWeights == << Item("A", 500), Item("B", 300) >>

WeightTables == {ProgramWeights, ExampleWeights, PartialWeights}

Range(s) == {s[i] : i \in 1..Len(s)}

\* list(W.keys())
Keys(W) == [i \in 1..Len(W) |-> W[i].ticker]

\* W[t]
WeightOf(W, t) == W[CHOOSE i \in 1..Len(W) : W[i].ticker = t].weight

\* sum of the weights of a table
RECURSIVE SumWeights(_, _)
SumWeights(W, i) ==
    IF i = 0 THEN Num(0) ELSE Add(SumWeights(W, i - 1), W[i].weight)

(***************************************************************************)
(* The feeds                                                               *)
(***************************************************************************)
FX == "USDJPY=X"

\* the reference CSV: the request fails, or a table of rows with the two
\* columns the program reads
CsvRows == [base_price : {Num(0), Num(10000)}, nav : {Num(0), Num(1000)}]

RECURSIVE SeqsUpTo(_, _)
SeqsUpTo(S, n) ==
    IF n = 0 THEN {<< >>}
    ELSE LET shorter == SeqsUpTo(S, n - 1)
         IN  shorter \cup {Append(s, x) : s \in {q \in shorter : Len(q) = n - 1}, x \in S}

RefFeeds ==
    {[kind |-> "raise", rows |-> << >>]}
    \cup {[kind |-> "table", rows |-> r] : r \in SeqsUpTo(CsvRows, MaxCsvRows)}

\* rows of the Close table for the tickers of a list T and the FX symbol: a
\* base row, and rows in which the first ticker or the FX rate moves, is
\* zero or is missing
BasePrice(T, s) == IF s = FX THEN Num(150) ELSE IF s = T[1] THEN Num(100) ELSE Num(200)

Symbols(T) == Range(T) \cup {FX}

BaseRow(T) == [s \in Symbols(T) |-> BasePrice(T, s)]

MovedValues == {Num(110), Num(0), NaN}

CloseRows(T) ==
    {BaseRow(T)}
    \cup {[BaseRow(T) EXCEPT ![s] = v] : s \in {T[1], FX}, v \in MovedValues}

MarketFeeds(T) ==
    {[kind |-> "raise", rows |-> << >>]}
    \cup {[kind |-> "table", rows |-> r] : r \in SeqsUpTo(CloseRows(T), MaxRows)}

\* DataFrame.ffill() along the date axis: a missing value takes the most
\* recent earlier value of its column, and stays missing when there is none
RECURSIVE ffill(_)
ffill(rows) ==
    IF Len(rows) <= 1 THEN rows
    ELSE LET n == Len(rows)
             head == ffill(SubSeq(rows, 1, n - 1))
             last == rows[n]
         IN  Append(head, [s \in DOMAIN last |->
                              IF IsNaN(last[s]) THEN head[n - 1][s] ELSE last[s]])

(***************************************************************************)
(* Text: what is printed and sent.  A text is a leading marker and lines;  *)
(* a line is a label and formatted values.                                 *)
(***************************************************************************)
Pow10(e) == IF e = 1 THEN 10 ELSE 100

\* round-half-even of n/d (d > 0) to an integer
RoundHalfEven(n, d) ==
    LET q == n \div d
        r == n % d
    IN  IF 2 * r > d \/ (2 * r = d /\ q % 2 = 1) THEN q + 1 ELSE q

\* format(x, ",.<e>f"): the value in units of 10^-e, or the text inf / nan
Fmt(x, e) ==
    IF IsNaN(x) THEN [k |-> "nan", v |-> 0]
    ELSE IF IsInf(x) THEN [k |-> "inf", v |-> x.n]
    ELSE [k |-> "fixed", v |-> RoundHalfEven(x.n * Pow10(e), x.d)]

Word(w) == [k |-> w, v |-> 0]

Line(label, vals) == [label |-> label, vals |-> vals]

Text(marker, lines) == [marker |-> marker, lines |-> lines]

\* the title line of a report
TITLE == "FANG+ estimated base price (latest constituents)"

\* the leading marker of an error report
ERROR_MARKER == "NAV estimation error"

SKIP_NOTICE == "LINE environment variables are not set"

RESPONSE_LOG == "LINE API response:"

NoText == Text("", << >>)

(***************************************************************************)
(* State                                                                   *)
(***************************************************************************)
VARIABLES
    WEIGHTS,                \* the module level weight table
    environ,                \* os.environ: the two credentials
    pc,                     \* position of the run
    previous_base_price,    \* locals of calculate_today_nav
    previous_nav,
    prices,
    fx,
    shares,
    units,
    estimated_base_price,
    msg,                    \* the report calculate_today_nav returns
    exc,                    \* the exception being propagated or handled
    error_text,             \* local of the handler of main
    stdout,                 \* texts printed so far
    posts,                  \* HTTP POST requests issued so far
    calls,                  \* texts send_line_message was called with
    steps,                  \* steps performed so far, in order
    exit_status             \* exit status of the process, -1 while it runs

vars == << WEIGHTS, environ, pc, previous_base_price, previous_nav, prices, fx,
           shares, units, estimated_base_price, msg, exc, error_text, stdout,
           posts, calls, steps, exit_status >>

locals == << previous_base_price, previous_nav, prices, fx, shares, units,
             estimated_base_price, msg >>

\* TICKERS = list(WEIGHTS.keys())
TICKERS == Keys(WEIGHTS)

\* a local that is not bound yet
Unbound == [k |-> "unbound", n |-> 0, d |-> 1]

NoExc == [type |-> "", origin |-> ""]

Raise(type, origin) == [type |-> type, origin |-> origin]

\* an environment variable: unset, or set to a string
Unset == [set |-> FALSE, value |-> ""]

Setenv(v) == [set |-> TRUE, value |-> v]

\* os.getenv(name)
getenv(name) == environ[name]

\* truth value of what os.getenv returns: None and "" are false
Truthy(v) == v.set /\ v.value # ""

Environs ==
    {[LINE_CHANNEL_ACCESS_TOKEN |-> t, LINE_TO_USER_ID |-> u] :
        t \in {Unset, Setenv(""), Setenv("token")},
        u \in {Unset, Setenv(""), Setenv("U1")}}

(***************************************************************************)
(* The functions of the program                                            *)
(***************************************************************************)
\* fetch_daiwa_csv_last_row followed by the two float() conversions: the
\* request may raise, df.iloc[-1] raises on a table without rows
fetch_daiwa_csv_last_row(feed) ==
    IF feed.kind = "raise"
    THEN [raised |-> TRUE, exc |-> Raise("ConnectionError", "fetch_daiwa_csv_last_row"),
          row |-> [base_price |-> Unbound, nav |-> Unbound]]
    ELSE IF Len(feed.rows) = 0
    THEN [raised |-> TRUE, exc |-> Raise("IndexError", "fetch_daiwa_csv_last_row"),
          row |-> [base_price |-> Unbound, nav |-> Unbound]]
    ELSE [raised |-> FALSE, exc |-> NoExc, row |-> feed.rows[Len(feed.rows)]]

\* the columns cols of every row
Columns(rows, cols) == [i \in 1..Len(rows) |-> [s \in cols |-> rows[i][s]]]

\* get_prices_and_fx: the Close columns of the tickers and of the FX symbol,
\* each forward filled
get_prices_and_fx(feed) ==
    IF feed.kind = "raise"
    THEN [raised |-> TRUE, exc |-> Raise("ConnectionError", "get_prices_and_fx"),
          prices |-> << >>, fx |-> << >>]
    ELSE [raised |-> FALSE, exc |-> NoExc,
          prices |-> ffill(Columns(feed.rows, Range(TICKERS))),
          fx |-> [i \in 1..Len(feed.rows) |-> ffill(Columns(feed.rows, {FX}))[i][FX]]]

\* s.iloc[-2] and s.iloc[-1]; they raise IndexError when out of bounds
IlocRaises(s, back) == Len(s) < back

Iloc(s, back) == s[Len(s) + 1 - back]

\* ShareOf without the conversion of the yen value to dollars
ShareOf_NoFx(nav, weight, prev_price, prev_fx) ==
    NpDiv(Mul(nav, weight), prev_price)

\* the shares the loop of estimate_shares computes for one ticker
ShareOf(nav, weight, prev_price, prev_fx) ==
    NpDiv(PyDiv(Mul(nav, weight), prev_fx), prev_price)

\* estimate_shares with the weights rescaled to sum to 1.0
estimate_shares_Normalized(nav, base_price, prev_prices, prev_fx) ==
    IF PyDivRaises(nav, base_price) \/ (Len(WEIGHTS) > 0 /\ PyDivRaises(nav, prev_fx))
    THEN [raised |-> TRUE, exc |-> Raise("ZeroDivisionError", "estimate_shares"),
          shares |-> << >>, units |-> Unbound]
    ELSE [raised |-> FALSE, exc |-> NoExc,
          shares |-> [t \in Range(TICKERS) |->
                         NpDiv(PyDiv(Mul(nav, NpDiv(WeightOf(WEIGHTS, t),
                                                    SumWeights(WEIGHTS, Len(WEIGHTS)))),
                                     prev_fx),
                               prev_prices[t])],
          units |-> PyDiv(nav, base_price)]

\* estimate_shares: units and the per ticker shares, or ZeroDivisionError
\* from one of the two divisions between Python floats
estimate_shares(nav, base_price, prev_prices, prev_fx) ==
    IF PyDivRaises(nav, base_price) \/ (Len(WEIGHTS) > 0 /\ PyDivRaises(nav, prev_fx))
    THEN [raised |-> TRUE, exc |-> Raise("ZeroDivisionError", "estimate_shares"),
          shares |-> << >>, units |-> Unbound]
    ELSE [raised |-> FALSE, exc |-> NoExc,
          shares |-> [t \in Range(TICKERS) |->
                         ShareOf(nav, WeightOf(WEIGHTS, t), prev_prices[t], prev_fx)],
          units |-> PyDiv(nav, base_price)]

\* sum(shares[t] * last_prices[t] for t in TICKERS), over the first i tickers
RECURSIVE TotalUsd(_, _, _)
TotalUsd(sh, last_prices, i) ==
    IF i = 0 THEN Num(0)
    ELSE Add(TotalUsd(sh, last_prices, i - 1),
             Mul(sh[TICKERS[i]], last_prices[TICKERS[i]]))

\* the projection of calculate_today_nav: total_jpy / units
Projection(sh, un, last_prices, last_fx) ==
    NpDiv(Mul(TotalUsd(sh, last_prices, Len(TICKERS)), last_fx), un)

\* diff and the percentage the report shows
Diff(est, base_price) == Sub(est, base_price)

Pct(est, base_price) == Mul(NpDiv(Diff(est, base_price), base_price), Num(100))

\* the lines calculate_today_nav joins into the report
Report(base_price, est, prev_fx, last_fx, sh) ==
    Text(TITLE,
         << Line("previous base price", << Fmt(base_price, 2) >>),
            Line("estimated base price", << Fmt(est, 2) >>),
            Line("change", << Fmt(Diff(est, base_price), 2), Fmt(Pct(est, base_price), 2) >>),
            Line("", << >>),
            Line("USDJPY", << Fmt(prev_fx, 2), Fmt(last_fx, 2) >>),
            Line("estimated shares", << >>) >>
         \o [i \in 1..Len(TICKERS) |-> Line(TICKERS[i], << Fmt(sh[TICKERS[i]], 1) >>)])

\* ErrorText built from str(e) instead of the traceback
ErrorText_NoTrace(e) == Text(ERROR_MARKER, << Line(e.type, << >>) >>)

\* the error report of main: the marker, then traceback.format_exc()
ErrorText(e) ==
    Text(ERROR_MARKER, << Line("Traceback (most recent call last)",
                               << Word(e.origin), Word(e.type) >>) >>)

\* outcomes of requests.post: a response with a status code, or an exception
HttpOutcomes ==
    {[kind |-> "response", status |-> 200], [kind |-> "response", status |-> 500],
     [kind |-> "raise", status |-> 0]}

\* send_line_message that skips only when both credentials are missing
send_line_message_BothMissing(text, outcome) ==
    LET token == getenv("LINE_CHANNEL_ACCESS_TOKEN")
        user_id == getenv("LINE_TO_USER_ID")
        post == [to |-> user_id.value, bearer |-> token.value, text |-> text]
    IN  IF ~Truthy(token) /\ ~Truthy(user_id)
        THEN [printed |-> << Text(SKIP_NOTICE, << >>) >>, posted |-> << >>,
              raised |-> FALSE, exc |-> NoExc]
        ELSE IF outcome.kind = "raise"
        THEN [printed |-> << >>, posted |-> << post >>,
              raised |-> TRUE, exc |-> Raise("ConnectionError", "send_line_message")]
        ELSE [printed |-> << Text(RESPONSE_LOG, << Line("status", << [k |-> "int", v |-> outcome.status] >>) >>) >>,
              posted |-> << post >>, raised |-> FALSE, exc |-> NoExc]

\* send_line_message(text) when requests.post has the given outcome: what it
\* prints, the POST it issues and whether it raises
send_line_message(text, outcome) ==
    LET token == getenv("LINE_CHANNEL_ACCESS_TOKEN")
        user_id == getenv("LINE_TO_USER_ID")
        post == [to |-> user_id.value, bearer |-> token.value, text |-> text]
    IN  IF ~Truthy(token) \/ ~Truthy(user_id)
        THEN [printed |-> << Text(SKIP_NOTICE, << >>) >>, posted |-> << >>,
              raised |-> FALSE, exc |-> NoExc]
        ELSE IF outcome.kind = "raise"
        THEN [printed |-> << >>, posted |-> << post >>,
              raised |-> TRUE, exc |-> Raise("ConnectionError", "send_line_message")]
        ELSE [printed |-> << Text(RESPONSE_LOG, << Line("status", << [k |-> "int", v |-> outcome.status] >>) >>) >>,
              posted |-> << post >>, raised |-> FALSE, exc |-> NoExc]

(***************************************************************************)
(* The run                                                                 *)
(***************************************************************************)
\* the rows calculate_today_nav reads once the market data is bound
prev_prices == Iloc(prices, 2)

last_prices == Iloc(prices, 1)

prev_fx == Iloc(fx, 2)

last_fx == Iloc(fx, 1)

Init ==
    /\ WEIGHTS \in WeightTables
    /\ environ \in Environs
    /\ pc = "fetch_reference"
    /\ previous_base_price = Unbound
    /\ previous_nav = Unbound
    /\ prices = << >>
    /\ fx = << >>
    /\ shares = << >>
    /\ units = Unbound
    /\ estimated_base_price = Unbound
    /\ msg = NoText
    /\ exc = NoExc
    /\ error_text = NoText
    /\ stdout = << >>
    /\ posts = << >>
    /\ calls = << >>
    /\ steps = << >>
    /\ exit_status = -1

\* an exception raised inside the try block of main reaches its handler
Throw(e) ==
    /\ exc' = e
    /\ pc' = "except"

\* calculate_today_nav, lines 72-74
FetchReference ==
    /\ pc = "fetch_reference"
    /\ \E feed \in RefFeeds :
          LET r == fetch_daiwa_csv_last_row(feed)
          IN  IF r.raised
              THEN /\ Throw(r.exc)
                   /\ UNCHANGED << previous_base_price, previous_nav >>
              ELSE /\ previous_base_price' = r.row.base_price
                   /\ previous_nav' = r.row.nav
                   /\ pc' = "fetch_market"
                   /\ UNCHANGED exc
    /\ steps' = Append(steps, "fetch_reference")
    /\ UNCHANGED << WEIGHTS, environ, prices, fx, shares, units, estimated_base_price,
                    msg, error_text, stdout, posts, calls, exit_status >>

\* calculate_today_nav, lines 76-82
FetchMarket ==
    /\ pc = "fetch_market"
    /\ \E feed \in MarketFeeds(TICKERS) :
          LET r == get_prices_and_fx(feed)
          IN  IF r.raised
              THEN /\ Throw(r.exc)
                   /\ UNCHANGED << prices, fx >>
              ELSE /\ prices' = r.prices
                   /\ fx' = r.fx
                   /\ IF IlocRaises(r.prices, 2) \/ IlocRaises(r.fx, 2)
                      THEN Throw(Raise("IndexError", "calculate_today_nav"))
                      ELSE /\ pc' = "estimate"
                           /\ UNCHANGED exc
    /\ steps' = Append(steps, "fetch_market")
    /\ UNCHANGED << WEIGHTS, environ, previous_base_price, previous_nav, shares, units,
                    estimated_base_price, msg, error_text, stdout, posts, calls,
                    exit_status >>

\* calculate_today_nav, line 84
EstimateShares ==
    /\ pc = "estimate"
    /\ LET r == estimate_shares(previous_nav, previous_base_price, prev_prices, prev_fx)
       IN  IF r.raised
           THEN /\ Throw(r.exc)
                /\ UNCHANGED << shares, units >>
           ELSE /\ shares' = r.shares
                /\ units' = r.units
                /\ pc' = "project"
                /\ UNCHANGED exc
    /\ steps' = Append(steps, "estimate_shares")
    /\ UNCHANGED << WEIGHTS, environ, previous_base_price, previous_nav, prices, fx,
                    estimated_base_price, msg, error_text, stdout, posts, calls,
                    exit_status >>

\* calculate_today_nav, lines 86-89
Project ==
    /\ pc = "project"
    /\ estimated_base_price' = Projection(shares, units, last_prices, last_fx)
    /\ pc' = "format"
    /\ steps' = Append(steps, "project")
    /\ UNCHANGED << WEIGHTS, environ, previous_base_price, previous_nav, prices, fx,
                    shares, units, msg, exc, error_text, stdout, posts, calls,
                    exit_status >>

\* calculate_today_nav, lines 91-104, and the assignment of main, line 137
Format ==
    /\ pc = "format"
    /\ msg' = Report(previous_base_price, estimated_base_price, prev_fx, last_fx, shares)
    /\ pc' = "print"
    /\ steps' = Append(steps, "format")
    /\ UNCHANGED << WEIGHTS, environ, previous_base_price, previous_nav, prices, fx,
                    shares, units, estimated_base_price, exc, error_text, stdout,
                    posts, calls, exit_status >>

\* main without the print of the report before it is sent
PrintReport_Missing ==
    /\ pc = "print"
    /\ pc' = "send"
    /\ steps' = Append(steps, "print")
    /\ UNCHANGED << WEIGHTS, environ, locals, exc, error_text, stdout, posts, calls,
                    exit_status >>

\* main, line 138
PrintReport ==
    /\ pc = "print"
    /\ stdout' = Append(stdout, msg)
    /\ pc' = "send"
    /\ steps' = Append(steps, "print")
    /\ UNCHANGED << WEIGHTS, environ, locals, exc, error_text, posts, calls,
                    exit_status >>

\* main, line 139
SendReport ==
    /\ pc = "send"
    /\ \E outcome \in HttpOutcomes :
          LET r == send_line_message(msg, outcome)
          IN  /\ stdout' = stdout \o r.printed
              /\ posts' = posts \o r.posted
              /\ IF r.raised
                 THEN Throw(r.exc)
                 ELSE /\ pc' = "return"
                      /\ UNCHANGED exc
    /\ calls' = Append(calls, msg)
    /\ steps' = Append(steps, "send")
    /\ UNCHANGED << WEIGHTS, environ, locals, error_text, exit_status >>

\* main, lines 141-143
HandleException ==
    /\ pc = "except"
    /\ error_text' = ErrorText(exc)
    /\ stdout' = Append(stdout, ErrorText(exc))
    /\ pc' = "send_error"
    /\ steps' = Append(steps, "print_error")
    /\ UNCHANGED << WEIGHTS, environ, locals, exc, posts, calls, exit_status >>

\* main, line 144: an exception raised here is outside the try block
SendError ==
    /\ pc = "send_error"
    /\ \E outcome \in HttpOutcomes :
          LET r == send_line_message(error_text, outcome)
          IN  /\ stdout' = stdout \o r.printed
              /\ posts' = posts \o r.posted
              /\ IF r.raised
                 THEN /\ exc' = r.exc
                      /\ pc' = "uncaught"
                 ELSE /\ pc' = "return"
                      /\ UNCHANGED exc
    /\ calls' = Append(calls, error_text)
    /\ steps' = Append(steps, "send_error")
    /\ UNCHANGED << WEIGHTS, environ, locals, error_text, exit_status >>

\* the interpreter ends: status 0 when main returned, 1 with the traceback of
\* an exception that left main
Exit ==
    /\ pc \in {"return", "uncaught"}
    /\ exit_status' = IF pc = "return" THEN 0 ELSE 1
    /\ pc' = "exited"
    /\ UNCHANGED << WEIGHTS, environ, locals, exc, error_text, stdout, posts, calls,
                    steps >>

Next ==
    \/ FetchReference
    \/ FetchMarket
    \/ EstimateShares
    \/ Project
    \/ Format
    \/ PrintReport
    \/ SendReport
    \/ HandleException
    \/ SendError
    \/ Exit

Spec == Init /\ [][Next]_vars

(***************************************************************************)
(* Properties                                                              *)
(***************************************************************************)
\* a finite value other than zero
NonZero(x) == IsFin(x) /\ x.n # 0

Did(step) == step \in Range(steps)

\* the run is over, or only the exit of the interpreter is left
Finished == pc \in {"return", "uncaught", "exited"}

\* the market data is bound and holds the two rows the program reads
MarketBound == Did("fetch_market") /\ Len(prices) >= 2 /\ Len(fx) >= 2

\* every divisor of the estimation is finite and not zero
DivisorsNonZero ==
    /\ MarketBound
    /\ NonZero(previous_base_price)
    /\ NonZero(previous_nav)
    /\ NonZero(prev_fx)
    /\ \A t \in Range(TICKERS) : NonZero(prev_prices[t])

\* the latest observation equals the previous one
NoChange ==
    /\ MarketBound
    /\ last_fx = prev_fx
    /\ \A t \in Range(TICKERS) : last_prices[t] = prev_prices[t]

\* a formatted value is the text inf or nan
NotANumber(f) == f.k \in {"inf", "nan"}

\* the values a report shows
ShownValues(text) == UNION {Range(text.lines[i].vals) : i \in 1..Len(text.lines)}

IsReport(text) == text.marker = TITLE

IsErrorReport(text) == text.marker = ERROR_MARKER

\* the sum of f over a finite set, in no particular order
RECURSIVE SumOver(_, _)
SumOver(S, f) ==
    IF S = {} THEN Num(0)
    ELSE LET t == CHOOSE u \in S : TRUE
         IN  Add(f[t], SumOver(S \ {t}, f))

\* v is an integer nearest to scale * x
Rounds(v, x, scale) == 2 * Abs(v * x.d - x.n * scale) <= x.d

\* C1: with the program's weight table and non-zero previous values, a latest
\* observation equal to the previous one gives an estimated base price equal
\* to the previous base price, a difference of 0 and a change of 0 percent.
C1_NoChangeRoundTrip ==
    (/\ msg # NoText
     /\ WEIGHTS = ProgramWeights
     /\ DivisorsNonZero
     /\ NoChange)
    => /\ estimated_base_price = previous_base_price
       /\ msg.lines[3].vals = << Fmt(Num(0), 2), Fmt(Num(0), 2) >>

\* C2: when the previous base price, the previous FX rate or the previous
\* price of some holding is zero, the estimation raises an arithmetic error
\* that reaches the handler of main, and no success report is produced.
C2_ZeroDivisorRaises ==
    (/\ MarketBound
     /\ Did("estimate_shares")
     /\ \/ IsZero(previous_base_price)
        \/ IsZero(prev_fx)
        \/ \E t \in Range(TICKERS) : IsZero(prev_prices[t]))
    => /\ shares = << >>
       /\ pc = "except" \/ error_text = ErrorText(Raise("ZeroDivisionError", "estimate_shares"))
       /\ msg # NoText => \A f \in ShownValues(msg) : ~NotANumber(f)

\* the computation ended without a report: one of its steps raised
ComputationRaised == ~Did("format") /\ (pc \in {"except", "send_error"} \/ Finished)

\* C3: when a step of the computation raises, main builds an error text that
\* starts with the error marker and holds the trace of the exception, prints
\* it and then calls send_line_message with it exactly once; no success
\* report is printed or sent, and the delivery need not succeed.
C3_ErrorReporting ==
    /\ (ComputationRaised /\ pc = "except") => (stdout = << >> /\ calls = << >>)
    /\ (ComputationRaised /\ pc # "except")
       => /\ IsErrorReport(error_text)
          /\ \E i \in 1..Len(error_text.lines) :
                /\ Len(error_text.lines[i].vals) = 2
                /\ error_text.lines[i].vals[1].k \in
                      {"fetch_daiwa_csv_last_row", "get_prices_and_fx",
                       "calculate_today_nav", "estimate_shares"}
                /\ error_text.lines[i].vals[2].k \in
                      {"ConnectionError", "IndexError", "ZeroDivisionError"}
          /\ stdout # << >> /\ stdout[1] = error_text
          /\ calls = IF pc = "send_error" THEN << >> ELSE << error_text >>
          /\ \A i \in 1..Len(stdout) : ~IsReport(stdout[i])
          /\ \A i \in 1..Len(posts) : posts[i].text = error_text
          /\ msg = NoText

C3_Witness ==
    /\ pc = "exited"
    /\ ~Did("format")
    /\ Did("estimate_shares")
    /\ Len(posts) = 1

\* C4: every run ends with exit status 0.
C4_ExitStatusZero == pc = "exited" => exit_status = 0

\* C5: a failed HTTP POST, a response that is not 2xx or a network error,
\* only shows in the log: send_line_message does not raise, main does not
\* enter its handler because of it, and a printed success report is not
\* followed by an error report.
C5_HttpFailureNonFatal ==
    /\ exc.origin # "send_line_message"
    /\ msg # NoText => (error_text = NoText /\ \A i \in 1..Len(stdout) : ~IsErrorReport(stdout[i]))

CredentialsMissing ==
    ~Truthy(getenv("LINE_CHANNEL_ACCESS_TOKEN")) \/ ~Truthy(getenv("LINE_TO_USER_ID"))

\* the texts printed by main itself, without the log lines of the notifier
RECURSIVE OwnOutput(_)
OwnOutput(out) ==
    IF out = << >> THEN << >>
    ELSE IF out[1].marker \in {SKIP_NOTICE, RESPONSE_LOG} THEN OwnOutput(Tail(out))
    ELSE << out[1] >> \o OwnOutput(Tail(out))

RECURSIVE CountMarker(_, _)
CountMarker(out, marker) ==
    IF out = << >> THEN 0
    ELSE (IF out[1].marker = marker THEN 1 ELSE 0) + CountMarker(Tail(out), marker)

\* C6: with the access token or the recipient id absent or empty, every call
\* of send_line_message issues no HTTP POST, prints the skip notice and
\* returns without raising, on the success path and on the error path; the
\* run prints the one text its computation produced and ends normally.
C6_MissingCredentialsSkip ==
    CredentialsMissing
    => /\ posts = << >>
       /\ CountMarker(stdout, SKIP_NOTICE) = Len(calls)
       /\ CountMarker(stdout, RESPONSE_LOG) = 0
       /\ exc.origin # "send_line_message"
       /\ pc # "uncaught"
       /\ Len(calls) <= 1
       /\ pc = "exited" => /\ exit_status = 0
                           /\ Len(calls) = 1
                           /\ OwnOutput(stdout) = calls
                           /\ Did("format") => calls = << msg >>
                           /\ ~Did("format") => calls = << error_text >>

C6_Witness ==
    /\ getenv("LINE_CHANNEL_ACCESS_TOKEN") = Setenv("")
    /\ Truthy(getenv("LINE_TO_USER_ID"))
    /\ pc = "exited"
    /\ Did("format")

\* the inputs of the worked example: weights A 0.5 and B 0.5, net assets
\* 1000, base price 10000, FX 150 -> 150, A 100 -> 110, B 200 -> 200
ExampleInputs ==
    /\ WEIGHTS = ExampleWeights
    /\ MarketBound
    /\ previous_nav = Num(1000)
    /\ previous_base_price = Num(10000)
    /\ prev_fx = Num(150) /\ last_fx = Num(150)
    /\ prev_prices = [t \in {"A", "B"} |-> IF t = "A" THEN Num(100) ELSE Num(200)]
    /\ last_prices = [t \in {"A", "B"} |-> IF t = "A" THEN Num(110) ELSE Num(200)]

\* C7: for every weight table and inputs whose divisors are finite and not
\* zero, units * previousBasePrice = previousNAV, shares_h * previousPrice_h
\* * previousFX = previousNAV * w_h, estimatedBasePrice * units = (sum of
\* shares_h * latestPrice_h) * latestFX, and the report shows the estimate,
\* estimate - previousBasePrice and that difference as a percentage of
\* previousBasePrice; the worked example gives 10500, +500 and +5.00%.
C7_EstimationFormula ==
    (msg # NoText /\ DivisorsNonZero)
    => /\ Mul(units, previous_base_price) = previous_nav
       /\ \A t \in Range(TICKERS) :
             Mul(Mul(shares[t], prev_prices[t]), prev_fx)
                = Mul(previous_nav, WeightOf(WEIGHTS, t))
       /\ Mul(estimated_base_price, units)
             = Mul(SumOver(Range(TICKERS),
                           [t \in Range(TICKERS) |-> Mul(shares[t], last_prices[t])]),
                   last_fx)
       /\ IsFin(estimated_base_price)
          => LET diff == Sub(estimated_base_price, previous_base_price)
                 ratio == NpDiv(diff, previous_base_price)
             IN  /\ msg.lines[2].vals[1].k = "fixed"
                 /\ Rounds(msg.lines[2].vals[1].v, estimated_base_price, 100)
                 /\ Rounds(msg.lines[3].vals[1].v, diff, 100)
                 /\ Rounds(msg.lines[3].vals[2].v, ratio, 10000)
       /\ ExampleInputs
          => /\ estimated_base_price = Num(10500)
             /\ msg.lines[2].vals = << [k |-> "fixed", v |-> 1050000] >>
             /\ msg.lines[3].vals = << [k |-> "fixed", v |-> 50000],
                                       [k |-> "fixed", v |-> 500] >>

C7_Witness == ExampleInputs /\ pc = "exited" /\ msg # NoText

\* C8: the weights are never normalized: the share count of a holding is
\* fixed by previousNAV, previousFX, its previous price and its own weight,
\* so A with weight 0.5 has the same shares whatever the weight of B, and the
\* value of all shares is previousNAV times the sum of the weights, also
\* when that sum is below 1.0.
C8_WeightsAsIs ==
    (shares # << >> /\ DivisorsNonZero)
    => /\ \A t \in Range(TICKERS) :
             Mul(Mul(shares[t], prev_prices[t]), prev_fx)
                = Mul(previous_nav, WeightOf(WEIGHTS, t))
       /\ WEIGHTS \in {ExampleWeights, PartialWeights}
          => Mul(Mul(shares["A"], prev_prices["A"]), prev_fx)
                = Mul(previous_nav, Rat(1, 2))
       /\ Mul(SumOver(Range(TICKERS),
                      [t \in Range(TICKERS) |-> Mul(shares[t], prev_prices[t])]),
              prev_fx)
             = Mul(previous_nav, SumWeights(WEIGHTS, Len(WEIGHTS)))

C8_Witness ==
    /\ WEIGHTS = PartialWeights
    /\ shares # << >>
    /\ DivisorsNonZero
    /\ SumWeights(WEIGHTS, Len(WEIGHTS)) = Rat(4, 5)

\* fewer than two observations in which every holding and the FX rate have
\* a value after the forward fill
InsufficientData ==
    \/ Len(prices) < 2
    \/ Len(fx) < 2
    \/ IsNaN(prev_fx) \/ IsNaN(last_fx)
    \/ \E t \in Range(TICKERS) : IsNaN(prev_prices[t]) \/ IsNaN(last_prices[t])

\* C9: when the market data is insufficient, the run fails with an error
\* that reaches the handler of main and never produces a success report.
C9_InsufficientDataIsError ==
    (Did("fetch_market") /\ InsufficientData)
    => /\ msg = NoText
       /\ Finished => error_text # NoText

Canon == << "fetch_reference", "fetch_market", "estimate_shares", "project",
            "format", "print", "send" >>

OnError == << "print_error", "send_error" >>

\* C10: the steps of a run happen in the order reference fetch, market
\* fetch, share estimation, projection, formatting, print, delivery, the
\* handler following the step that raised; every text passed to
\* send_line_message was printed before, and nothing is delivered before the
\* computation has completed or raised.
C10_StrictSequencing ==
    /\ \E k \in 0..Len(Canon), e \in 0..Len(OnError) :
          /\ steps = SubSeq(Canon, 1, k) \o SubSeq(OnError, 1, e)
          /\ e > 0 => k > 0
    /\ \A i \in 1..Len(calls) : \E j \in 1..Len(stdout) : stdout[j] = calls[i]
    /\ calls # << >> => (Did("format") \/ Did("print_error"))
    /\ \A i \in 1..Len(posts) : \E j \in 1..Len(calls) : calls[j] = posts[i].text

C10_Witness ==
    /\ pc = "exited"
    /\ steps = Canon \o OnError
    /\ Len(calls) = 2

====
